---- MODULE Spec2Model ----
(***************************************************************************)
(* Model of HalideExpressionGenerator                                      *)
(* (bindings/python/cntk/contrib/codegen/expression_generator.py).         *)
(*                                                                         *)
(* The generator walks the nodes of a model graph in the order it is       *)
(* given, lowers every node to statements of a Halide pipeline, and then   *)
(* renders a C++ class: create_eval_graph, init and Evaluate.  The model   *)
(* keeps the generator's fields (uid_to_exp, listing, inputs, outputs,     *)
(* values), the rendered class as a record, and the history buffers the    *)
(* rendered Evaluate method indexes when it is called.                     *)
(*                                                                         *)
(* Strings are abstracted as follows.  A uid is a number 1..N.  A symbolic *)
(* name is a number: the n-th string of a lexicographically ordered        *)
(* alphabet of names, 0 being the empty name; the uid used in place of an  *)
(* empty name is placed after every proper name (UidAsName).  A statement  *)
(* of the listing is a record of the fields its format string is filled    *)
(* with.                                                                   *)
(***************************************************************************)
EXTENDS Integers, Sequences, FiniteSets, TLC

\* ---------------------------------------------------------------- bounds
\* Shapes have rank 0..MaxRank.
MaxRank == 3
\* Recurrence offsets of past values are 0..MaxOffset.
MaxOffset == 2
\* Evaluate is called with timestamps 0..MaxTimestamp.
MaxTimestamp == 3
\* Proper names of inputs and outputs are 1..MaxName.
MaxName == 2

\* ------------------------------------------------------------ graph model
\* The shape used for a node of rank r: (2), (2,3), (2,3,4), ...
ShapeOfRank(r) == [i \in 1..r |-> i + 1]

DTypes == {"float32", "float64", "float16"}

\* A node of the graph together with its networkx attributes:
\*   total_bits  0: no 'quantized' attribute; otherwise its 'total_bits'
\*   original    0: no 'original' attribute; otherwise the id of the past
\*               value the node was split from, whose 'offset' is offset
\*   sliceStrides 0: attribute absent
\*   preds       the operands, in argument order
Node(kind, op, rank, dtype, bits, name, preds, orig, off, stride) ==
    [kind |-> kind, op_name |-> op, shape |-> ShapeOfRank(rank),
     dtype |-> dtype, total_bits |-> bits, name |-> name, preds |-> preds,
     original |-> orig, offset |-> off, sliceStrides |-> stride]

VARIABLES
    graph,        \* the graph: graph[uid] is the node uid (read-only)
    visited,      \* the uids handed to visit() so far, in order
    uid_to_exp,   \* self.uid_to_exp: uid -> expression symbol
    listing,      \* self.listing: the statements, in order
    inputs,       \* self.inputs: <<is_past_value, input_name, uid>>
    outputs,      \* self.outputs: <<is_past_value, name, operand uid, uid>>
    values,       \* self.values: uids of the leaf values
    status,       \* "visiting", "failed" or "generated"
    error,        \* the exception that ended generate(), or "none"
    offender,     \* the node whose rule raised it; 0 if no rule did
    artifact,     \* the rendered class, or NoArtifact
    m_buffer,     \* runtime: history buffers of the rendered class
    lastEval      \* runtime: the slots the last Evaluate call used

vars == <<graph, visited, uid_to_exp, listing, inputs, outputs, values,
          status, error, offender, artifact, m_buffer, lastEval>>

Uids == 1..Len(graph)

\* get_predecessors(graph, uid): the operands in argument order.
get_predecessors(g, u) == g[u].preds

\* graph.successors(uid): the nodes that have uid as an operand.
successors(g, u) == {v \in 1..Len(g) : \E i \in 1..Len(g[v].preds) : g[v].preds[i] = u}

\* 'original' in self.graph.node[uid]
HasOriginal(g, u) == g[u].original # 0

\* 'quantized' in self.graph.node[uid]
HasQuantized(g, u) == g[u].total_bits # 0

\* The uid used where a name is empty, as a name: after every proper name.
UidAsName(u) == MaxName + u

\* node.name if node.name else node.uid
NameOrUid(g, u) == IF g[u].name # 0 THEN g[u].name ELSE UidAsName(u)

\* Expression symbols: the uid of a node, or the name of an input.
UidSym(u) == <<"uid", u>>
NameSym(n) == <<"name", n>>

\* The value of uid_to_exp[o]; a missing key raises KeyError in the caller.
NoExp == <<"missing", 0>>
ExpOf(tbl, o) == IF o \in DOMAIN tbl THEN tbl[o] ELSE NoExp

\* Mutant: a missing key is not noticed.
AllKnown_unchecked(tbl, ops) == TRUE

\* Whether every lookup self.uid_to_exp[o], o in ops, finds its key.
AllKnown(tbl, ops) == \A i \in 1..Len(ops) : ops[i] \in DOMAIN tbl

\* --------------------------------------------------- results of a visit
\* What visiting one node does to the generator: the exception raised (or
\* "none"), the statements appended to listing, the symbol stored in
\* uid_to_exp (a sequence of length 0 or 1), and the entries appended to
\* inputs, outputs and values.
Raise(e) ==
    [err |-> e, stmts |-> <<>>, sym |-> <<>>, ins |-> <<>>, outs |-> <<>>, vals |-> <<>>]

Done(stmts, sym, ins, outs, vals) ==
    [err |-> "none", stmts |-> stmts, sym |-> sym, ins |-> ins, outs |-> outs, vals |-> vals]

\* One statement of the listing: the node it is emitted for, the call or
\* buffer it makes, the operand expressions, the literal arguments, the
\* element type it names ("" when none), the source element type of a
\* Quantize call ("" otherwise), the number of index variables it uses (0
\* when none) and whether ".compute_root()" follows it.
Stmt(u, op, args, lits, type, ivars, root) ==
    [uid |-> u, op |-> op, args |-> args, lits |-> lits, type |-> type,
     srctype |-> "", ivars |-> ivars, root |-> root]

\* ------------------------------------------------------------ type rules
TypeError == "raise"

\* py2c_type(type)
py2c_type(dtype) ==
    IF dtype = "float32" THEN "float"
    ELSE IF dtype = "float64" THEN "double"
    ELSE TypeError

\* data_type(node)
data_type(g, u) ==
    IF HasQuantized(g, u)
    THEN IF g[u].total_bits = 16 THEN "short"
         ELSE IF g[u].total_bits = 8 THEN "char"
         ELSE TypeError
    ELSE IF g[u].dtype = "float32" THEN "float" ELSE "double"

\* halide_shape(shape): the literal dimensions, or <<0>> for ValueError
\* (no dimension of a shape is 0).
BadShape == <<0>>
halide_shape(shape) ==
    IF Len(shape) = 2 THEN <<shape[2], shape[1]>>
    ELSE IF Len(shape) = 1 THEN <<shape[1]>>
    ELSE IF Len(shape) = 0 THEN <<1>>
    ELSE BadShape

\* index_vars(node): the number of index variables, or 0 for ValueError.
index_vars(g, u) ==
    IF Len(g[u].shape) = 1 \/ Len(g[u].shape) = 0 THEN 1
    ELSE IF Len(g[u].shape) = 2 THEN 2
    ELSE 0

\* ---------------------------------------------------------- leaf values
\* generate_value(node), then the two lines of visit_parameter /
\* visit_constant that append the statement and store the symbol.
generate_value(g, u) ==
    LET type == data_type(g, u)
        shape == g[u].shape
    IN  IF type = TypeError THEN Raise("UnsupportedQuantizationWidth")
        ELSE IF Len(shape) > 2 THEN Raise("UnsupportedShape")
        ELSE IF index_vars(g, u) = 0 THEN Raise("UnsupportedShape")
        ELSE Done(<<Stmt(u, IF HasQuantized(g, u) THEN "QuantizedBuffer" ELSE "Buffer",
                         <<>>, halide_shape(shape), type, index_vars(g, u), FALSE)>>,
                  <<UidSym(u)>>, <<>>, <<>>, <<u>>)

visit_parameter(g, u) == generate_value(g, u)

visit_constant(g, u) == generate_value(g, u)

\* visit_input(node)
visit_input(g, u) ==
    Done(<<>>, <<NameSym(NameOrUid(g, u))>>,
         <<<<HasOriginal(g, u), NameOrUid(g, u), u>>>>, <<>>, <<>>)

\* visit_output(node)
visit_output(g, u) ==
    LET operands == get_predecessors(g, u)
    IN  IF HasOriginal(g, u) /\ Len(operands) # 2 THEN Raise("MalformedOutput")
        ELSE IF ~HasOriginal(g, u) /\ Len(operands) # 1 THEN Raise("MalformedOutput")
        ELSE Done(<<>>, <<>>, <<>>,
                  <<<<HasOriginal(g, u), NameOrUid(g, u), operands[1], u>>>>, <<>>)

\* ------------------------------------------------------------ operators
\* Mutant: the directive is emitted for a node with a single successor too.
MultiplyUsed_any(g, u) == Cardinality(successors(g, u)) > 0

\* The threshold of the "compute_root" directive: more than one successor.
MultiplyUsed(g, u) == Cardinality(successors(g, u)) > 1

\* generate_binary_call(node, op_name)
generate_binary_call(g, u, tbl, op_name) ==
    LET operands == get_predecessors(g, u)
    IN  IF Len(operands) # 2 THEN Raise("OperatorArity")
        ELSE IF ~AllKnown(tbl, operands) THEN Raise("KeyError")
        ELSE Done(<<Stmt(u, op_name, [i \in 1..2 |-> ExpOf(tbl, operands[i])],
                         <<>>, "", 0, MultiplyUsed(g, u))>>,
                  <<UidSym(u)>>, <<>>, <<>>, <<>>)

\* generate_call(node, op_name, operands): operands are already strings.
generate_call(g, u, op_name, args, lits) ==
    Done(<<Stmt(u, op_name, args, lits, "", 0, MultiplyUsed(g, u))>>,
         <<UidSym(u)>>, <<>>, <<>>, <<>>)

\* generate_unary_call(node, op_name); type is the template argument of
\* the call name ("" when it has none).
generate_unary_call(g, u, tbl, op_name, type) ==
    LET operands == get_predecessors(g, u)
    IN  IF Len(operands) # 1 THEN Raise("OperatorArity")
        ELSE IF ~AllKnown(tbl, operands) THEN Raise("KeyError")
        ELSE Done(<<Stmt(u, op_name, <<ExpOf(tbl, operands[1])>>, <<>>, type, 0, FALSE)>>,
                  <<UidSym(u)>>, <<>>, <<>>, <<>>)

\* generate_times(node)
generate_times(g, u, tbl) ==
    LET operands == get_predecessors(g, u)
    IN  IF Len(operands) # 2 THEN Raise("OperatorArity")
        ELSE
        LET vector == g[operands[1]]
            matrix == g[operands[2]]
            shape == IF Len(matrix.shape) > 0 THEN matrix.shape ELSE <<1>>
            op_name == IF HasQuantized(g, u) THEN "VectorByMatrixTimesQuantized"
                       ELSE "VectorByMatrixTimes"
        IN  IF Len(vector.shape) # 0 /\ Len(vector.shape) # 1 THEN Raise("UnsupportedShape")
            ELSE IF ~AllKnown(tbl, operands) THEN Raise("KeyError")
            ELSE IF Len(shape) < 2 THEN Raise("IndexError")
            ELSE generate_call(g, u, op_name, [i \in 1..2 |-> ExpOf(tbl, operands[i])],
                               <<shape[1], shape[2]>>)

\* generate_element_times / generate_plus / generate_minus
generate_element_times(g, u, tbl) == generate_binary_call(g, u, tbl, "ElementTimes")
generate_plus(g, u, tbl) == generate_binary_call(g, u, tbl, "Plus")
generate_minus(g, u, tbl) == generate_binary_call(g, u, tbl, "Minus")

\* generate_stable_sigmoid(node): data_type(node) is evaluated for the call
\* name before generate_unary_call runs.
generate_stable_sigmoid(g, u, tbl) ==
    IF data_type(g, u) = TypeError THEN Raise("UnsupportedQuantizationWidth")
    ELSE generate_unary_call(g, u, tbl, "Sigmoid", data_type(g, u))

generate_tanh(g, u, tbl) == generate_unary_call(g, u, tbl, "Tanh", "")
generate_log(g, u, tbl) == generate_unary_call(g, u, tbl, "Log", "")

\* Mutant: the stride attribute is not looked at.
StrideRejected_ignored(node) == FALSE

\* The check of the 'sliceStrides' attribute in generate_slice.
StrideRejected(node) == node.sliceStrides # 0 /\ node.sliceStrides # 1

\* generate_slice(node); the literals are beginIndex and endIndex, which the
\* model fixes to 0 and 1.
generate_slice(g, u, tbl) ==
    LET operand == get_predecessors(g, u)
    IN  IF Len(operand) # 1 THEN Raise("OperatorArity")
        ELSE IF Len(g[operand[1]].shape) = 1
        THEN IF StrideRejected(g[u]) THEN Raise("UnsupportedStride")
             ELSE IF ~AllKnown(tbl, operand) THEN Raise("KeyError")
             ELSE Done(<<Stmt(u, "Slice", <<ExpOf(tbl, operand[1])>>, <<0, 1>>, "", 0, FALSE)>>,
                       <<UidSym(u)>>, <<>>, <<>>, <<>>)
        ELSE Raise("UnsupportedShape")

\* generate_splice(node)
generate_splice(g, u, tbl) ==
    LET operands == get_predecessors(g, u)
    IN  IF Len(operands) # 2 THEN Raise("OperatorArity")
        ELSE
        LET operand1 == g[operands[1]]
            operand2 == g[operands[2]]
        IN  IF Len(operand1.shape) # 1 \/ Len(operand2.shape) # 1 THEN Raise("UnsupportedShape")
            ELSE IF ~AllKnown(tbl, operands) THEN Raise("KeyError")
            ELSE Done(<<Stmt(u, "Splice", [i \in 1..2 |-> ExpOf(tbl, operands[i])],
                             <<operand1.shape[1], operand2.shape[1]>>, "", 0, FALSE)>>,
                      <<UidSym(u)>>, <<>>, <<>>, <<>>)

\* generate_quantization(node), then the last line of visit_node.
generate_quantization(g, u, tbl) ==
    LET operands == get_predecessors(g, u)
        shape == IF Len(g[u].shape) > 0 THEN g[u].shape ELSE <<1>>
        shape_arg == IF Len(shape) = 2 THEN <<shape[1], shape[2]>> ELSE <<shape[1]>>
    IN  IF Len(operands) # 1 THEN Raise("OperatorArity")
        ELSE IF data_type(g, u) = TypeError THEN Raise("UnsupportedQuantizationWidth")
        ELSE IF ~AllKnown(tbl, operands) THEN Raise("KeyError")
        ELSE Done(<<[Stmt(u, "Quantize", <<ExpOf(tbl, operands[1])>>, shape_arg,
                          data_type(g, u), 0, FALSE)
                      EXCEPT !.srctype = IF g[u].dtype = "float32" THEN "float" ELSE "double"]>>,
                  <<UidSym(u)>>, <<>>, <<>>, <<>>)

\* visit_primitive_function(node)
visit_primitive_function(g, u, tbl) ==
    LET op_name == g[u].op_name
    IN  IF op_name = "Times" THEN generate_times(g, u, tbl)
        ELSE IF op_name = "Plus" THEN generate_plus(g, u, tbl)
        ELSE IF op_name = "Minus" THEN generate_minus(g, u, tbl)
        ELSE IF op_name = "Log" THEN generate_log(g, u, tbl)
        ELSE IF op_name = "Slice" THEN generate_slice(g, u, tbl)
        ELSE IF op_name = "Splice" THEN generate_splice(g, u, tbl)
        ELSE IF op_name = "StableSigmoid" \/ op_name = "Sigmoid"
             THEN generate_stable_sigmoid(g, u, tbl)
        ELSE IF op_name = "Tanh" THEN generate_tanh(g, u, tbl)
        ELSE IF op_name = "ElementTimes" THEN generate_element_times(g, u, tbl)
        ELSE Raise("UnsupportedOperator")

\* visit_node(node)
visit_node(g, u, tbl) ==
    IF g[u].kind = "QuantizeNode" THEN generate_quantization(g, u, tbl)
    ELSE Raise("UnexpectedNode")

\* NodeVisitor.visit, one iteration of its loop: the rule a node is routed
\* to by its kind.
VisitOne(g, u, tbl) ==
    IF g[u].kind = "Function" THEN visit_primitive_function(g, u, tbl)
    ELSE IF g[u].kind = "Parameter" THEN visit_parameter(g, u)
    ELSE IF g[u].kind = "Constant" THEN visit_constant(g, u)
    ELSE IF g[u].kind = "Input" THEN visit_input(g, u)
    ELSE IF g[u].kind = "Output" THEN visit_output(g, u)
    ELSE visit_node(g, u, tbl)

\* ------------------------------------------------------------- rendering
\* sorted(s, key = lambda x: x[k]): Python's sort is stable, so an element
\* goes after the elements of smaller key and after the earlier elements of
\* equal key.
SortedPos(s, k, i) ==
    1 + Cardinality({j \in 1..Len(s) : s[j][k] < s[i][k] \/ (s[j][k] = s[i][k] /\ j < i)})

sorted(s, k) == [p \in 1..Len(s) |-> s[CHOOSE i \in 1..Len(s) : SortedPos(s, k, i) = p]]

\* [x for x in s if x[1] == flag]
RECURSIVE Filter(_, _)
Filter(s, flag) ==
    IF s = <<>> THEN <<>>
    ELSE IF Head(s)[1] = flag THEN <<Head(s)>> \o Filter(Tail(s), flag)
    ELSE Filter(Tail(s), flag)

\* The formal parameters of create_eval_graph (generate, lines 140-143):
\* the names of the actual inputs sorted, then those of the past inputs.
FormalParams(ins) ==
    [i \in 1..Len(Filter(ins, FALSE)) |-> sorted(Filter(ins, FALSE), 2)[i][2]]
    \o [i \in 1..Len(Filter(ins, TRUE)) |-> sorted(Filter(ins, TRUE), 2)[i][2]]

\* generate_return_value(): <<expression uid, name>> of every output, the
\* actual outputs sorted by name, then the past outputs sorted by name.
generate_return_value(outs) ==
    [i \in 1..Len(Filter(outs, FALSE)) |->
        <<sorted(Filter(outs, FALSE), 2)[i][3], sorted(Filter(outs, FALSE), 2)[i][2]>>]
    \o [i \in 1..Len(Filter(outs, TRUE)) |->
        <<sorted(Filter(outs, TRUE), 2)[i][3], sorted(Filter(outs, TRUE), 2)[i][2]>>]

\* The loop of generate() over self.values: per leaf value the original and
\* the stored type of its accessors; py2c_type may raise.
ValueMembers(g, vals) ==
    [i \in 1..Len(vals) |->
        [uid |-> vals[i], original_type |-> py2c_type(g[vals[i]].dtype),
         quantized_type |-> data_type(g, vals[i])]]

\* generate_init_method(): the writer calls, then one resize per past input
\* in the order of self.inputs.  `node` in its second loop is the variable
\* the first loop leaves behind: the last leaf value, unbound when there is
\* none.
InitSetCalls(vals) == vals

InitResizes(g, ins, vals) ==
    LET past_inputs == Filter(ins, TRUE)
        node == vals[Len(vals)]
    IN  [i \in 1..Len(past_inputs) |->
            [name |-> past_inputs[i][2],
             slots |-> g[past_inputs[i][3]].offset + 1,
             type |-> data_type(g, node),
             shape |-> halide_shape(g[node].shape)]]

InitError(g, ins, vals) ==
    IF Filter(ins, TRUE) = <<>> THEN "none"
    ELSE IF vals = <<>> THEN "NameError"
    ELSE IF halide_shape(g[vals[Len(vals)]].shape) = BadShape THEN "UnsupportedShape"
    ELSE IF data_type(g, vals[Len(vals)]) = TypeError THEN "UnsupportedQuantizationWidth"
    ELSE "none"

\* generate_eval_method(): the past inputs sorted by input name.
EvalPastInputs(ins) == sorted(Filter(ins, TRUE), 2)

\* The buffer members declared for the past inputs (lines 198-201).
BufferDecls(g, ins) ==
    [i \in 1..Len(EvalPastInputs(ins)) |->
        [name |-> g[EvalPastInputs(ins)[i][3]].name,
         type |-> data_type(g, EvalPastInputs(ins)[i][3]),
         rank |-> Len(g[EvalPastInputs(ins)[i][3]].shape)]]

EvalError(g, ins) ==
    IF \E i \in 1..Len(EvalPastInputs(ins)) : data_type(g, EvalPastInputs(ins)[i][3]) = TypeError
    THEN "UnsupportedQuantizationWidth" ELSE "none"

\* The arguments of the call of create_eval_graph in Evaluate (line 210).
InputParams(ins) ==
    [i \in 1..Len(Filter(ins, FALSE)) |-> <<"arg", sorted(Filter(ins, FALSE), 2)[i][2]>>]
    \o [i \in 1..Len(EvalPastInputs(ins)) |-> <<"m_", EvalPastInputs(ins)[i][2]>>]

\* The destinations of m_graph.realize (line 215): the output arguments
\* sorted by output name, then the history buffer of every past input, in
\* the order of the past inputs sorted by input name.
OutputParams(ins, outs) ==
    [i \in 1..Len(Filter(outs, FALSE)) |-> <<"arg", sorted(Filter(outs, FALSE), 2)[i][2]>>]
    \o [i \in 1..Len(EvalPastInputs(ins)) |-> <<"m_buffer", EvalPastInputs(ins)[i][2]>>]

\* The statements that feed the past inputs (lines 225-226): the input, and
\* the offset subtracted from the timestamp.
FeedStatements(g, ins) ==
    [i \in 1..Len(EvalPastInputs(ins)) |->
        [name |-> EvalPastInputs(ins)[i][2], offset |-> g[EvalPastInputs(ins)[i][3]].offset]]

NoArtifact == [produced |-> FALSE]

\* The text generate() returns, as the parts it is assembled from.
Render(g, ins, outs, vals, lst) ==
    [produced |-> TRUE,
     params |-> FormalParams(ins),
     members |-> ValueMembers(g, vals),
     listing |-> lst,
     returns |-> generate_return_value(outs),
     init_set |-> InitSetCalls(vals),
     init_resize |-> InitResizes(g, ins, vals),
     buffer_decl |-> BufferDecls(g, ins),
     has_timestamp |-> Len(EvalPastInputs(ins)) # 0,
     input_params |-> InputParams(ins),
     feed |-> FeedStatements(g, ins),
     output_params |-> OutputParams(ins, outs)]

\* The first exception of the part of generate() that follows visit().
RenderError(g, ins, outs, vals) ==
    IF \E i \in 1..Len(vals) : py2c_type(g[vals[i]].dtype) = TypeError
    THEN "UnsupportedElementType"
    ELSE IF InitError(g, ins, vals) # "none" THEN InitError(g, ins, vals)
    ELSE EvalError(g, ins)

\* ---------------------------------------------------- the rendered class
\* A slot of a history buffer: the timestamp of the Evaluate call that
\* realized into it and the expression realized; Unwritten after resize.
Unwritten == <<-1, 0>>

\* std::vector::resize(n, value)
Resize(v, n) == [i \in 1..n |-> IF i <= Len(v) THEN v[i] ELSE Unwritten]

\* The resize statements of init(), run in order on the (empty) vectors.
RECURSIVE RunResizes(_, _)
RunResizes(buf, rs) ==
    IF rs = <<>> THEN buf
    ELSE RunResizes([buf EXCEPT ![Head(rs).name] = Resize(buf[Head(rs).name], Head(rs).slots)],
                    Tail(rs))

\* 2^e mod n
RECURSIVE Pow2Mod(_, _)
Pow2Mod(e, n) == IF e = 0 THEN 1 % n ELSE (2 * Pow2Mod(e - 1, n)) % n

\* The widths size_t has on the targets of the generated C++.
SizeTBits == {32, 64}

\* C++ "x % size" for an int x and a size_t size of w bits: x is converted
\* to size_t (modulo 2^w) before the remainder is taken.
UnsignedRemainder(x, w, size) ==
    IF x >= 0 THEN x % size
    ELSE (Pow2Mod(w, size) + (x % size)) % size

\* Mutant: the offset is not subtracted, the input is fed from the slot
\* the same call realizes into.
FeedSlot_current(t, offset, w, size) == UnsignedRemainder(t, w, size)

\* m_buffer<name>[((timestamp - offset) % m_buffer<name>.size())]
FeedSlot(t, offset, w, size) == UnsignedRemainder(t - offset, w, size)

\* m_buffer<name>[timestamp % m_buffer<name>.size()]
RealizeSlot(t, w, size) == UnsignedRemainder(t, w, size)

\* m_graph.realize({...}): the i-th output of the pipeline goes to the i-th
\* destination; a destination that is a history buffer gets its slot set.
RECURSIVE Realize(_, _, _, _, _)
Realize(buf, rets, dsts, t, w) ==
    IF dsts = <<>> \/ rets = <<>> THEN buf
    ELSE IF Head(dsts)[1] = "m_buffer"
    THEN LET old == buf[Head(dsts)[2]]
             new == [old EXCEPT ![RealizeSlot(t, w, Len(old)) + 1] = <<t, Head(rets)[1]>>]
         IN  Realize([buf EXCEPT ![Head(dsts)[2]] = new], Tail(rets), Tail(dsts), t, w)
    ELSE Realize(buf, Tail(rets), Tail(dsts), t, w)

NotEvaluated == [timestamp |-> -1, fed |-> <<>>, realized |-> <<>>]

\* ------------------------------------------------------- the input graphs
Leaf(kind, rank, dtype, bits) == Node(kind, "", rank, dtype, bits, 0, <<>>, 0, 0, 0)
In(name, rank, dtype) == Node("Input", "", rank, dtype, 0, name, <<>>, 0, 0, 0)
PastIn(name, dtype, orig, off) == Node("Input", "", 1, dtype, 0, name, <<>>, orig, off, 0)
Out(name, preds) == Node("Output", "", 1, "float32", 0, name, preds, 0, 0, 0)
PastOut(name, preds, orig, off) == Node("Output", "", 1, "float32", 0, name, preds, orig, off, 0)
Fn(op, dtype, bits, preds, stride) == Node("Function", op, 1, dtype, bits, 0, preds, 0, 0, stride)
Qn(rank, dtype, bits, preds) == Node("QuantizeNode", "", rank, dtype, bits, 0, preds, 0, 0, 0)

Ranks == 0..MaxRank
Offsets == 0..MaxOffset
Names == 1..MaxName
\* The operator names with a lowering rule, and one without.
OpNames == {"Times", "Plus", "Minus", "Log", "Slice", "Splice", "StableSigmoid",
            "Sigmoid", "Tanh", "ElementTimes", "Exp"}
\* 'total_bits' of a quantized node; 0 stands for a node that is not.
BitWidths == {0, 4, 8, 16}

\* An input and a parameter of any rank, one operator over any operands
\* drawn from them, and its output.
LoweringGraphs ==
    {<<In(1, r1, "float32"), Leaf("Parameter", r2, "float32", 0),
       Fn(op, "float32", 0, p, st), Out(1, <<3>>)>> :
        r1 \in Ranks, r2 \in Ranks, op \in OpNames \ {"Slice"},
        p \in {<<>>, <<1>>, <<2>>, <<1, 2>>, <<2, 1>>}, st \in {0}}
    \cup
    {<<In(1, r1, "float32"), Leaf("Parameter", r2, "float32", 0),
       Fn("Slice", "float32", 0, p, st), Out(1, <<3>>)>> :
        r1 \in Ranks, r2 \in Ranks,
        p \in {<<>>, <<1>>, <<2>>, <<1, 2>>, <<2, 1>>}, st \in {0, 1, 2}}

\* A leaf of any kind, rank, element type and bit width, and a node
\* that reads it: a quantize marker, a sigmoid, or a node of no known kind.
LeafReaders(r, d, b) ==
    {Qn(r, d, 8, <<1>>), Qn(r, d, 4, <<1>>), Qn(r, d, 16, <<>>),
     Fn("Sigmoid", d, 0, <<1>>, 0), Fn("Sigmoid", d, b, <<1>>, 0),
     Node("Other", "", r, d, 0, 0, <<1>>, 0, 0, 0)}

InputReaders(r, d) ==
    {Qn(r, d, 8, <<1>>), Qn(r, d, 16, <<1>>), Fn("Sigmoid", d, 0, <<1>>, 0),
     Fn("Tanh", d, 0, <<1>>, 0)}

TypedGraphs ==
    UNION {{<<Leaf(k, r, d, b), c, Out(1, <<2>>)>> : c \in LeafReaders(r, d, b)} :
            k \in {"Parameter", "Constant"}, r \in Ranks, d \in DTypes, b \in BitWidths}
    \cup
    UNION {{<<In(1, r, d), c, Out(1, <<2>>)>> : c \in InputReaders(r, d)} :
            r \in Ranks, d \in DTypes}

\* A two-operand operator with zero, one or two consumers; the last node
\* is an output of any name.
SharedGraphs ==
    {<<In(1, 1, "float32"), Leaf("Parameter", 2, "float32", 0),
       Fn(op, "float32", 0, <<1, 2>>, 0), c, Out(n, <<q>>)>> :
        op \in {"Plus", "Minus", "ElementTimes", "Times"},
        c \in {Out(1, <<3>>), Out(1, <<2>>), Fn("Log", "float32", 0, <<3>>, 0)},
        n \in {0} \cup Names, q \in {1, 3}}

\* Two recurrent pairs: two past-value inputs of distinct names, the two
\* outputs fed back into them, of any names, and a leaf value.  The
\* fed-back value of a pair is the other pair's input.
RecurrentGraphs ==
    {<<PastIn(1, "float32", 1, k), PastIn(2, "float32", 2, MaxOffset - k),
       PastOut(m1, <<2, 1>>, 1, k), PastOut(m2, <<1, 2>>, 2, MaxOffset - k),
       Leaf("Constant", 1, "float32", 0)>> :
        m1 \in Names, m2 \in Names, k \in Offsets}

\* One recurrent step: a leaf value (or, in its place, an input), a
\* past-value input, their sum, the output and the fed-back output.
StepGraphs ==
    {<<x, PastIn(1, d, 1, k), Fn("Plus", "float32", 0, <<1, 2>>, 0), Out(1, <<3>>),
       PastOut(2, <<3, 2>>, 1, k)>> :
        x \in {Leaf("Parameter", 1, "float32", 0), Leaf("Parameter", 2, "float32", 8),
               In(2, 1, "float32")},
        d \in DTypes, k \in Offsets}

Graphs == LoweringGraphs \cup TypedGraphs \cup SharedGraphs \cup RecurrentGraphs \cup StepGraphs

\* ---------------------------------------------------------------- actions
Init ==
    /\ graph \in Graphs
    /\ visited = <<>>
    /\ uid_to_exp = <<>>
    /\ listing = <<>>
    /\ inputs = <<>>
    /\ outputs = <<>>
    /\ values = <<>>
    /\ status = "visiting"
    /\ error = "none"
    /\ offender = 0
    /\ artifact = NoArtifact
    /\ m_buffer = <<>>
    /\ lastEval = NotEvaluated

Range(s) == {s[i] : i \in 1..Len(s)}

\* self.uid_to_exp[uid] = sym, for the symbol of a visit (if it stores one).
Store(tbl, u, sym) ==
    IF sym = <<>> THEN tbl
    ELSE [x \in DOMAIN tbl \cup {u} |-> IF x = u THEN sym[1] ELSE tbl[x]]

\* Mutant: the exception of a rule is swallowed and the walk goes on.
AfterVisit_resume(err) == "visiting"

\* What an exception does to generate(): it propagates to the caller.
AfterVisit(err) == IF err = "none" THEN "visiting" ELSE "failed"

\* generate(): visit(nodes) reaches the next node of nodes, any node not
\* yet visited, and lowers it.
Visit(u) ==
    /\ status = "visiting"
    /\ u \in Uids \ Range(visited)
    /\ LET r == VisitOne(graph, u, uid_to_exp)
       IN  /\ visited' = Append(visited, u)
           /\ status' = AfterVisit(r.err)
           /\ error' = r.err
           /\ offender' = IF r.err = "none" THEN 0 ELSE u
           /\ uid_to_exp' = Store(uid_to_exp, u, r.sym)
           /\ listing' = listing \o r.stmts
           /\ inputs' = inputs \o r.ins
           /\ outputs' = outputs \o r.outs
           /\ values' = values \o r.vals
    /\ UNCHANGED <<graph, artifact, m_buffer, lastEval>>

\* generate(), after visit(nodes) returned: the class is rendered and
\* returned, unless a step of the rendering raises.
Emit ==
    /\ status = "visiting"
    /\ Range(visited) = Uids
    /\ LET e == RenderError(graph, inputs, outputs, values)
       IN  /\ error' = e
           /\ status' = IF e = "none" THEN "generated" ELSE "failed"
           /\ artifact' = IF e = "none"
                          THEN Render(graph, inputs, outputs, values, listing)
                          ELSE NoArtifact
    /\ UNCHANGED <<graph, visited, uid_to_exp, listing, inputs, outputs, values,
                   offender, m_buffer, lastEval>>

\* The rendered init(weightFilePath): the writers are called and the
\* history buffers are resized.
LoadWeights ==
    /\ status = "generated"
    /\ status' = "loaded"
    /\ m_buffer' = RunResizes([n \in {artifact.init_resize[i].name :
                                        i \in 1..Len(artifact.init_resize)} |-> <<>>],
                              artifact.init_resize)
    /\ UNCHANGED <<graph, visited, uid_to_exp, listing, inputs, outputs, values,
                   error, offender, artifact, lastEval>>

\* The rendered Evaluate(timestamp, ...), called with the next timestamp:
\* the past inputs are set from their buffers, then the pipeline is
\* realized into the outputs and the buffers.
Evaluate(t, w) ==
    /\ status = "loaded"
    /\ t = lastEval.timestamp + 1
    /\ t <= MaxTimestamp
    /\ Len(artifact.returns) = Len(artifact.output_params)
    /\ lastEval' =
         [timestamp |-> t,
          fed |-> [i \in 1..Len(artifact.feed) |->
                     [name |-> artifact.feed[i].name,
                      slot |-> FeedSlot(t, artifact.feed[i].offset, w,
                                        Len(m_buffer[artifact.feed[i].name]))]],
          realized |-> [i \in 1..Len(artifact.feed) |->
                     [name |-> artifact.feed[i].name,
                      slot |-> RealizeSlot(t, w, Len(m_buffer[artifact.feed[i].name]))]]]
    /\ m_buffer' = Realize(m_buffer, artifact.returns, artifact.output_params, t, w)
    /\ UNCHANGED <<graph, visited, uid_to_exp, listing, inputs, outputs, values,
                   status, error, offender, artifact>>

Next ==
    \/ \E u \in Uids : Visit(u)
    \/ Emit
    \/ LoadWeights
    \/ \E t \in 0..MaxTimestamp, w \in SizeTBits : Evaluate(t, w)

Spec == Init /\ [][Next]_vars

\* ------------------------------------------------------------ properties
\* The nodes were visited in dependency order: every operand before the
\* node that reads it.
InDependencyOrder ==
    \A i \in 1..Len(visited) :
        \A o \in Range(graph[visited[i]].preds) :
            \E j \in 1..(i - 1) : visited[j] = o

\* The visit of u went through: u was visited and its rule did not raise.
Lowered(u) == u \in Range(visited) /\ u # offender

Produced == status \in {"generated", "loaded"}

\* The symbol the rule of node u stores for it.
OwnSymbol(u) ==
    IF graph[u].kind = "Input" THEN NameSym(NameOrUid(graph, u)) ELSE UidSym(u)

\* C1 as stated: after a visit in dependency order every node of the graph,
\* Output nodes included, has an entry in uid_to_exp, and the operands of
\* every node with an entry have entries.
C1_EveryNodeHasEntry ==
    (Produced /\ InDependencyOrder) =>
        /\ \A u \in Uids : u \in DOMAIN uid_to_exp
        /\ \A u \in DOMAIN uid_to_exp :
               \A o \in Range(graph[u].preds) : o \in DOMAIN uid_to_exp

\* C1 as amended: every node other than an Output node gets exactly one
\* entry in uid_to_exp, its own symbol, when its visit goes through; an
\* Output node gets none (it is recorded in outputs); no other node has an
\* entry; and whenever a node has an entry each of its operands has one,
\* in every state, so also in the state right after the entry is written.
C1_NonOutputNodesHaveEntry ==
    /\ \A u \in Uids :
           (Lowered(u) /\ graph[u].kind # "Output") <=> u \in DOMAIN uid_to_exp
    /\ \A u \in DOMAIN uid_to_exp :
           /\ uid_to_exp[u] = OwnSymbol(u)
           /\ \A o \in Range(graph[u].preds) : o \in DOMAIN uid_to_exp
    /\ Produced => \A u \in Uids : Lowered(u)

\* C1 witness: a graph with an operator over two operands and an output was
\* visited to the end, and the class was rendered.
C1_Witness ==
    /\ Produced
    /\ \E u \in DOMAIN uid_to_exp :
           graph[u].kind = "Function" /\ Len(graph[u].preds) = 2
    /\ \E u \in Uids : graph[u].kind = "Output" /\ u \notin DOMAIN uid_to_exp

\* The entries self.inputs and self.outputs get when the nodes are visited
\* in the order of their uids (a dependency order of every graph of Graphs).
InputsByUid(g) ==
    LET ids == SelectSeq([u \in 1..Len(g) |-> u], LAMBDA u : g[u].kind = "Input")
    IN  [i \in 1..Len(ids) |-> <<HasOriginal(g, ids[i]), NameOrUid(g, ids[i]), ids[i]>>]

OutputsByUid(g) ==
    LET ids == SelectSeq([u \in 1..Len(g) |-> u], LAMBDA u : g[u].kind = "Output")
    IN  [i \in 1..Len(ids) |->
            <<HasOriginal(g, ids[i]), NameOrUid(g, ids[i]), g[ids[i]].preds[1], ids[i]>>]

\* C2: the formal parameters of create_eval_graph and its return list are
\* the same for every dependency order the nodes of a graph are visited in
\* (the lists the visit in uid order gives), each is sorted by name within
\* its immediate and its recurrent part, and the arguments Evaluate passes
\* to create_eval_graph follow the order of the formal parameters.
C2_OrderIndependentLists ==
    (Produced /\ InDependencyOrder) =>
        /\ artifact.params = FormalParams(InputsByUid(graph))
        /\ artifact.returns = generate_return_value(OutputsByUid(graph))
        /\ Len(artifact.input_params) = Len(artifact.params)
        /\ \A i \in 1..Len(artifact.params) :
               artifact.input_params[i][2] = artifact.params[i]

\* C3: after init() the history buffer of a recurrent input of offset k has
\* k + 1 slots, and an Evaluate call with timestamp t feeds the input from
\* slot (t - k) mod (k + 1) and realizes into slot t mod (k + 1), both
\* within 0..k.
C3_SlotsOfEvaluate ==
    (status = "loaded" /\ lastEval.timestamp >= 0) =>
        \A i \in 1..Len(artifact.feed) :
            LET k == artifact.feed[i].offset
                t == lastEval.timestamp
            IN  /\ Len(m_buffer[artifact.feed[i].name]) = k + 1
                /\ lastEval.fed[i].slot = (t - k) % (k + 1)
                /\ lastEval.realized[i].slot = t % (k + 1)
                /\ lastEval.fed[i].slot \in 0..k
                /\ lastEval.realized[i].slot \in 0..k

\* The statements of the listing emitted for node u.
StatementsOf(u) == {i \in 1..Len(listing) : listing[i].uid = u}

\* Node u left no trace in the generator: no symbol, no statement, no
\* entry in inputs, outputs or values.
Untouched(u) ==
    /\ u \notin DOMAIN uid_to_exp
    /\ StatementsOf(u) = {}
    /\ \A i \in 1..Len(inputs) : inputs[i][3] # u
    /\ \A i \in 1..Len(outputs) : outputs[i][4] # u
    /\ u \notin Range(values)

KnownOpNames == OpNames \ {"Exp"}

\* C4: generate() is all-or-nothing.  A node whose rule raised is the last
\* node visited, generate() has failed and no later node is ever visited;
\* a failed generate() has returned no class, so that nothing is loaded or
\* evaluated; the offending node and the nodes not visited have no symbol,
\* no statement and no entry in inputs, outputs or values; and a node of
\* unknown operator name never has a symbol or a statement.
C4_AllOrNothing ==
    /\ \A i \in 1..Len(visited) :
           ~Lowered(visited[i]) => (i = Len(visited) /\ status = "failed")
    /\ (offender # 0 \/ error # "none") => status = "failed"
    /\ status = "failed" =>
           /\ error # "none"
           /\ artifact = NoArtifact
           /\ m_buffer = <<>>
           /\ lastEval = NotEvaluated
    /\ \A u \in Uids : ~Lowered(u) => Untouched(u)
    /\ \A u \in Uids :
           (graph[u].kind = "Function" /\ graph[u].op_name \notin KnownOpNames) =>
               (u \notin DOMAIN uid_to_exp /\ StatementsOf(u) = {})
    /\ artifact.produced => (Range(visited) = Uids /\ \A u \in Uids : Lowered(u))

\* C4 witness: the rule of an operator of unknown name raised after other
\* nodes had been lowered and before the last node was visited.
C4_Witness ==
    /\ status = "failed"
    /\ error = "UnsupportedOperator"
    /\ Len(listing) > 0
    /\ Range(visited) # Uids

\* C5: no value, index-variable or quantization statement is ever emitted
\* for a node of rank 3 or more: the node's rule fails with the
\* unsupported-shape error instead.
C5_NoStatementAboveRank2 ==
    /\ \A i \in 1..Len(listing) :
           listing[i].op \in {"Buffer", "QuantizedBuffer", "Quantize"} =>
               Len(graph[listing[i].uid].shape) <= 2
    /\ \A u \in Range(visited) :
           (/\ graph[u].kind \in {"Parameter", "Constant", "QuantizeNode"}
            /\ Len(graph[u].shape) >= 3
            /\ Len(graph[u].preds) = (IF graph[u].kind = "QuantizeNode" THEN 1 ELSE 0)
            /\ graph[u].total_bits \in {0, 8, 16}
            /\ Range(graph[u].preds) \subseteq DOMAIN uid_to_exp) =>
               (offender = u /\ error = "UnsupportedShape")

\* A Slice node whose 'sliceStrides' attribute is present and not 1.
StridedSlice(u) ==
    /\ graph[u].kind = "Function"
    /\ graph[u].op_name = "Slice"
    /\ graph[u].sliceStrides \notin {0, 1}

\* C6 as stated: the visit of a Slice node of stride other than 1 fails
\* with the unsupported-stride error, whatever its operands.
C6_StrideErrorAlways ==
    \A u \in Range(visited) :
        StridedSlice(u) =>
            (status = "failed" /\ offender = u /\ error = "UnsupportedStride")

\* C6 as amended: the visit of a Slice node of stride other than 1 always
\* fails and emits nothing; the error is the unsupported-stride error
\* when the node has exactly one operand of rank 1, the arity error when it
\* does not have exactly one operand, and the unsupported-shape error when
\* its one operand is not of rank 1.
C6_StridedSliceFails ==
    \A u \in Range(visited) :
        StridedSlice(u) =>
            /\ status = "failed"
            /\ offender = u
            /\ Untouched(u)
            /\ error = (IF Len(graph[u].preds) # 1 THEN "OperatorArity"
                        ELSE IF Len(graph[graph[u].preds[1]].shape) # 1
                             THEN "UnsupportedShape"
                        ELSE "UnsupportedStride")

\* C6 witness: a Slice of stride 2 over one operand of rank 1, already
\* lowered, was visited and failed with the unsupported-stride error.
C6_Witness ==
    \E u \in Range(visited) :
        /\ StridedSlice(u)
        /\ Len(graph[u].preds) = 1
        /\ graph[u].preds[1] \in DOMAIN uid_to_exp
        /\ error = "UnsupportedStride"

\* C7: a Times node with two lowered operands, the first of rank 0 or 1, is
\* lowered when visited: its call carries both operand expressions and two
\* literal dimensions, 1 and 1 for a second operand of rank 0 and the
\* declared dimensions for one of rank 2.
C7_TimesScalarMatrix ==
    \A u \in Range(visited) :
        (/\ graph[u].kind = "Function"
         /\ graph[u].op_name = "Times"
         /\ Len(graph[u].preds) = 2
         /\ Range(graph[u].preds) \subseteq DOMAIN uid_to_exp
         /\ Len(graph[graph[u].preds[1]].shape) \in {0, 1}
         /\ Len(graph[graph[u].preds[2]].shape) \in {0, 2}) =>
            \E i \in StatementsOf(u) :
                /\ listing[i].args = <<uid_to_exp[graph[u].preds[1]],
                                       uid_to_exp[graph[u].preds[2]]>>
                /\ listing[i].lits =
                      (IF Len(graph[graph[u].preds[2]].shape) = 0 THEN <<1, 1>>
                       ELSE graph[graph[u].preds[2]].shape)

\* C8: a class is rendered only for a graph all of whose nodes have one of
\* the two supported element types.
C8_ElementTypeChecked ==
    artifact.produced =>
        \A u \in Uids : graph[u].dtype \in {"float32", "float64"}

BinaryOpNames == {"Plus", "Minus", "ElementTimes"}

\* C9: every lowered binary-operator node has exactly one statement in the
\* listing, over its two operand expressions, and the statement carries
\* the compute_root directive if and only if more than one node of the
\* graph has the node as an operand.
C9_ComputeRootIffShared ==
    \A u \in Uids :
        (graph[u].kind = "Function" /\ graph[u].op_name \in BinaryOpNames /\ Lowered(u)) =>
            /\ Cardinality(StatementsOf(u)) = 1
            /\ \A i \in StatementsOf(u) :
                   /\ listing[i].op = graph[u].op_name
                   /\ Len(listing[i].args) = 2
                   /\ listing[i].root <=>
                          (Cardinality({v \in Uids : u \in Range(graph[v].preds)}) > 1)

\* C9 witness: the listing holds a binary operator with the directive (it
\* has two consumers) and the class was rendered.
C9_Witness ==
    /\ Produced
    /\ \E i \in 1..Len(listing) :
           /\ listing[i].op \in BinaryOpNames
           /\ listing[i].root
           /\ Cardinality({v \in Uids : listing[i].uid \in Range(graph[v].preds)}) = 2

\* C10: in the rendered class the recurrent destinations of realize are as
\* many as the recurrent outputs of the return list, and the i-th recurrent
\* output is realized into the buffer of the input it is paired with (the
\* two were split from the same past value).  Stated for the graphs whose
\* outputs have pairwise distinct names, where the return list is the same
\* for every visit order.
C10_RealizeIntoPairedBuffer ==
    (/\ Produced
     /\ InDependencyOrder
     /\ \A i, j \in 1..Len(outputs) : outputs[i][2] = outputs[j][2] => i = j) =>
        LET rets == SelectSeq(artifact.returns,
                              LAMBDA r : \E i \in 1..Len(outputs) :
                                  outputs[i][1] /\ outputs[i][3] = r[1] /\ outputs[i][2] = r[2])
            dsts == SelectSeq(artifact.output_params, LAMBDA d : d[1] = "m_buffer")
        IN  /\ Len(rets) = Len(dsts)
            /\ \A i \in 1..Len(dsts) :
                   \E o \in Uids, x \in Uids :
                       /\ graph[o].kind = "Output" /\ HasOriginal(graph, o)
                       /\ graph[o].preds[1] = rets[i][1]
                       /\ NameOrUid(graph, o) = rets[i][2]
                       /\ graph[x].kind = "Input" /\ HasOriginal(graph, x)
                       /\ NameOrUid(graph, x) = dsts[i][2]
                       /\ graph[o].original = graph[x].original

\* The entries of self.inputs that are past values, in the order init()
\* emits their resize statements.
PastInputEntries == Filter(inputs, TRUE)

\* C11: whenever every node of a graph with recurrent inputs was lowered
\* and every leaf value has a supported element type, the class is
\* rendered, and init() holds one resize statement per recurrent input:
\* for that input's buffer, to its offset plus one slots, of buffers of the
\* element type and the dimensions of the recurrent input node itself.
C11_ResizeUsesOwnShapeAndType ==
    (/\ status # "visiting"
     /\ Range(visited) = Uids
     /\ offender = 0
     /\ PastInputEntries # <<>>
     /\ \A i \in 1..Len(values) : py2c_type(graph[values[i]].dtype) # TypeError) =>
        /\ artifact.produced
        /\ Len(artifact.init_resize) = Len(PastInputEntries)
        /\ \A i \in 1..Len(PastInputEntries) :
               LET x == PastInputEntries[i][3]
               IN  /\ artifact.init_resize[i].name = PastInputEntries[i][2]
                   /\ artifact.init_resize[i].slots = graph[x].offset + 1
                   /\ artifact.init_resize[i].type = data_type(graph, x)
                   /\ artifact.init_resize[i].shape = halide_shape(graph[x].shape)

\* C12: after Evaluate was called with the timestamps 0, 1, ..., t, for
\* every recurrent input of offset k with 1 <= k <= t: the slot the call
\* with timestamp t fed the input from holds what the call with timestamp
\* t - k realized into the input's buffer (the output the realize call
\* routes to that buffer) and no call since, the call with timestamp t
\* included, has written it; the slot the call with timestamp t realized
\* into is another slot, and holds what that call wrote.
C12_FeedsSlotWrittenOffsetCallsAgo ==
    (status = "loaded" /\ lastEval.timestamp >= 0) =>
        \A i \in 1..Len(artifact.feed) :
            LET k == artifact.feed[i].offset
                t == lastEval.timestamp
                buf == m_buffer[artifact.feed[i].name]
                rd == lastEval.fed[i].slot
                wr == lastEval.realized[i].slot
            IN  (k >= 1 /\ t >= k) =>
                    /\ rd \in 0..(Len(buf) - 1)
                    /\ wr \in 0..(Len(buf) - 1)
                    /\ buf[rd + 1][1] = t - k
                    /\ buf[wr + 1][1] = t
                    /\ rd # wr
                    /\ \E j \in 1..Len(artifact.output_params) :
                           /\ artifact.output_params[j] = <<"m_buffer", artifact.feed[i].name>>
                           /\ buf[rd + 1][2] = artifact.returns[j][1]

\* C12 witness: a recurrent input of offset 2 or more was fed, after its
\* buffer had wrapped around, from the slot written offset calls before,
\* other than the slot just written.
C12_Witness ==
    /\ status = "loaded"
    /\ \E i \in 1..Len(artifact.feed) :
           /\ artifact.feed[i].offset >= 2
           /\ lastEval.timestamp > artifact.feed[i].offset
           /\ m_buffer[artifact.feed[i].name][lastEval.fed[i].slot + 1][1] =
                  lastEval.timestamp - artifact.feed[i].offset
           /\ lastEval.fed[i].slot # lastEval.realized[i].slot

====
